---- MODULE Spec2Model ----
(***************************************************************************)
(* stackbuddy: the stack walker (StackIter), the parent resolver (parent,  *)
(* extract_branch), the note composer (note_block, note_double, ...) and   *)
(* the note merger (replace_note), with the update-notes loop of main.     *)
(*                                                                         *)
(* Text is modelled as a sequence of one-character strings, so that find,  *)
(* split and the prefix tests of the source are computed, not assumed.     *)
(* Option<T> is a sequence of length 0 (None) or 1 (Some).                 *)
(***************************************************************************)
EXTENDS Integers, Sequences, FiniteSets, TLC

VARIABLES
    \* the environment: git and gh
    refs,       \* the decorated history git holds for branch x (entries of labels)
    gitlog,     \* branch name -> the lines `git log ... <branch>` prints
    head,       \* the checked-out branch
    prs,        \* branch name -> what `gh pr view <branch> --json number` answers
    bodies,     \* branch name -> the body of the branch's pull request on the server
    edits,      \* the `gh pr edit` children still running: the branch and the body each read
    lost,       \* branches whose `gh pr edit` exited with a failure after reading the body
    \* the command line
    cmd,        \* the subcommand
    arg,        \* its optional branch argument
    format,     \* its note format
    dry_run,    \* its --dry-run flag
    \* the program
    parentOut,  \* what parent() returned
    start,      \* the branch the walk started from
    it,         \* the StackIter being collected
    stack,      \* the Vec collected so far
    fetched,    \* update_note's `body`: what pr_body returned in the turn under way
    idx,        \* how many branches of the stack the update-notes loop has taken
    noted,      \* the last note_block call: its branch, the stack it used, its result
    out,        \* what the command printed, as events
    \* the note merger on its own
    mbody,      \* a pull request body
    note1,      \* the note merged first
    note2,      \* the note merged second
    once,       \* replace_note(mbody, note1)
    twice,      \* replace_note(once, note2)
    direct,     \* replace_note(mbody, note2)
    pc          \* position in the command

envVars == <<refs, gitlog, head, prs>>
cliVars == <<cmd, arg, format, dry_run>>
walkVars == <<start, it, stack>>
loopVars == <<bodies, edits, lost, fetched, idx, noted, out>>
mergeVars == <<mbody, note1, note2, once, twice, direct>>

vars == <<envVars, cliVars, parentOut, walkVars, loopVars, mergeVars, pc>>

(***************************************************************************)
(* Option and text helpers (Rust's std on &str)                            *)
(***************************************************************************)
None == << >>
Some(x) == <<x>>
IsSome(o) == Len(o) = 1
Unwrap(o) == o[1]

Min(S) == CHOOSE x \in S : \A y \in S : x <= y

\* str::find: byte offset (0-based) of the first match, NoIndex for None
NoIndex == -1
find(s, pat) ==
    LET hits == {i \in 0..(Len(s) - Len(pat)) : SubSeq(s, i + 1, i + Len(pat)) = pat}
    IN IF hits = {} THEN NoIndex ELSE Min(hits)

starts_with(s, p) == Len(p) <= Len(s) /\ SubSeq(s, 1, Len(p)) = p

\* s[from..] with a 0-based offset
From(s, from) == SubSeq(s, from + 1, Len(s))

strip_prefix_or(s, p) == IF starts_with(s, p) THEN From(s, Len(p)) ELSE s

RECURSIVE split(_, _)
split(s, sep) ==
    LET i == find(s, sep)
    IN IF i = NoIndex THEN <<s>>
       ELSE <<SubSeq(s, 1, i)>> \o split(From(s, i + Len(sep)), sep)

\* char::is_whitespace, the characters str::trim removes: U+0009 to U+000D,
\* the space, U+0085, U+00A0 and U+1680 (the White_Space code points from
\* U+2000 on cannot be written in a string of this language)
WhiteSpace == {"\t", "\n", "", "\f", "\r", " ", "", " ", " "}

RECURSIVE trim_start(_)
trim_start(s) ==
    IF s # << >> /\ s[1] \in WhiteSpace THEN trim_start(Tail(s)) ELSE s

RECURSIVE trim_end(_)
trim_end(s) ==
    IF s # << >> /\ s[Len(s)] \in WhiteSpace THEN trim_end(SubSeq(s, 1, Len(s) - 1)) ELSE s

trim(s) == trim_end(trim_start(s))

RECURSIVE trim_start_matches(_, _)
trim_start_matches(s, p) ==
    IF p # << >> /\ starts_with(s, p) THEN trim_start_matches(From(s, Len(p)), p) ELSE s

\* str::split_once(' '): None, or Some(<<before, after>>)
split_once(s, sep) ==
    LET i == find(s, sep)
    IN IF i = NoIndex THEN None ELSE Some(<<SubSeq(s, 1, i), From(s, i + Len(sep))>>)

RECURSIVE Concat(_)
Concat(ss) == IF ss = << >> THEN << >> ELSE Head(ss) \o Concat(Tail(ss))

RECURSIVE Join(_, _)
Join(ss, sep) ==
    IF ss = << >> THEN << >>
    ELSE IF Len(ss) = 1 THEN ss[1]
    ELSE ss[1] \o sep \o Join(Tail(ss), sep)

(***************************************************************************)
(* Text constants of the source                                            *)
(***************************************************************************)
OPEN == <<"<", "!", "-", "-", " ", "s", "t", "a", "c", "k", "b", "u", "d", "d", "y", " ", "n", "o", "t", "e", " ", "-", "-", ">">>
CLOSE == <<"<", "!", "-", "-", " ", "/", "s", "t", "a", "c", "k", "b", "u", "d", "d", "y", " ", "n", "o", "t", "e", " ", "-", "-", ">">>
NOTE_HEADER == <<">", " ", "[", "!", "N", "o", "t", "e", "]">>
PREVIOUS_PR_ITEM == <<"\n", ">", " ", "-", " ", "P", "r", "e", "v", "i", "o", "u", "s", " ", "P", "R", ":", " ", "#">>
NEXT_PR_ITEM == <<"\n", ">", " ", "-", " ", "N", "e", "x", "t", " ", "P", "R", ":", " ", "#">>
ONLY_PR == <<"\n", ">", " ", "T", "h", "i", "s", " ", "i", "s", " ", "c", "u", "r", "r", "e", "n", "t", "l", "y", " ", "t", "h", "e", " ", "o", "n", "l", "y", " ", "P", "R", " ", "i", "n", " ", "t", "h", "e", " ", "s", "t", "a", "c", "k">>
TABLE_HEADER == <<"|", " ", "P", "r", "e", "v", "i", "o", "u", "s", " ", "P", "R", " ", "|", " ", "N", "e", "x", "t", " ", "P", "R", " ", "|", "\n">>
TABLE_RULE == <<"|", "-", "-", "-", "-", "-", "-", "-", "-", "-", "-", "-", "-", "-", "|", "-", "-", "-", "-", "-", "-", "-", "-", "-", "|", "\n">>
NONE_TEXT == <<"N", "o", "n", "e">>
LIST_ITEM == <<"-", " ", "#">>
THIS_SUFFIX == <<" ", "(", "t", "h", "i", "s", ")">>
NO_PULL_REQUESTS_FOUND == <<"n", "o", " ", "p", "u", "l", "l", " ", "r", "e", "q", "u", "e", "s", "t", "s", " ", "f", "o", "u", "n", "d">>
MAIN == <<"m", "a", "i", "n">>
MASTER == <<"m", "a", "s", "t", "e", "r">>
STAR_SPACE == <<"*", " ">>
NL == <<"\n">>
HEAD_ARROW == <<"H", "E", "A", "D", " ", "-", ">", " ">>
ORIGIN_SLASH == <<"o", "r", "i", "g", "i", "n", "/">>
TAG_COLON == <<"t", "a", "g", ":", " ">>
COMMA_SPACE == <<",", " ">>

(***************************************************************************)
(* Parent resolver: extract_branch and parent                              *)
(***************************************************************************)
\* Result<T, Error>, with the two ways a call does not return: a panic (an
\* expect on an Err, a slice with begin > end) and a walk that never ends
Ok(v) == [kind |-> "ok", val |-> v, err |-> ""]
Err(e) == [kind |-> "err", val |-> None, err |-> e]
Panic == [kind |-> "panic", val |-> None, err |-> ""]
Hang == [kind |-> "hang", val |-> None, err |-> ""]

KeepLabel(label) == ~starts_with(label, ORIGIN_SLASH) /\ ~starts_with(label, TAG_COLON)

\* .filter(..).filter(..).next() over the split labels
RECURSIVE FirstKept(_)
FirstKept(labels) ==
    IF labels = << >> THEN None
    ELSE IF KeepLabel(Head(labels)) THEN Some(Head(labels))
    ELSE FirstKept(Tail(labels))

extract_branch(line) ==
    LET open == find(line, <<"(">>)
        to == find(line, <<")">>)
    IN IF open = NoIndex THEN Ok(None)
       ELSE IF to = NoIndex THEN Ok(None)
       ELSE IF open + 1 > to THEN Panic
       ELSE LET inner == SubSeq(line, open + 2, to)
                labels == split(inner, COMMA_SPACE)
                stripped == [i \in 1..Len(labels) |-> strip_prefix_or(labels[i], HEAD_ARROW)]
            IN Ok(FirstKept(stripped))

RECURSIVE parent_lines(_)
parent_lines(lines) ==
    IF lines = << >> THEN Ok(None)
    ELSE LET line == trim(trim_start_matches(Head(lines), <<"*">>))
             sp == split_once(line, <<" ">>)
         IN IF ~IsSome(sp) THEN parent_lines(Tail(lines))
            ELSE LET r == extract_branch(Unwrap(sp)[2])
                 IN IF r.kind = "panic" THEN Panic
                    ELSE IF IsSome(r.val) THEN r
                    ELSE parent_lines(Tail(lines))

(***************************************************************************)
(* The repository as git reports it                                        *)
(***************************************************************************)
A == <<"a">>
B == <<"b">>
C == <<"c">>
X == <<"x">>

\* `git branch` lists the local branches in name order
BranchList == <<A, B, C, MAIN>>
Branch == {BranchList[i] : i \in 1..Len(BranchList)}
NonTrunk == Branch \ {MAIN}

\* stdout of `git log ... <branch>`; empty when git does not know the name
git_log(branch) == IF branch \in DOMAIN gitlog THEN gitlog[branch] ELSE << >>

\* stdout of `git branch`, the checked-out branch marked
git_branch(checked_out) ==
    [i \in 1..Len(BranchList) |->
        (IF BranchList[i] = checked_out THEN STAR_SPACE ELSE <<" ", " ">>) \o BranchList[i]]

parent(branch) == parent_lines(git_log(branch))

current_branch == trim(head)

RECURSIVE FirstTrunk(_)
FirstTrunk(names) ==
    IF names = << >> THEN None
    ELSE IF Head(names) = MAIN \/ Head(names) = MASTER THEN Some(Head(names))
    ELSE FirstTrunk(Tail(names))

main_branch ==
    LET lines == git_branch(head)
    IN FirstTrunk([i \in 1..Len(lines) |-> trim(trim_start_matches(lines[i], STAR_SPACE))])

(***************************************************************************)
(* What `git log --oneline --graph --decorate` prints for a history        *)
(***************************************************************************)
Local(name) == [kind |-> "local", head |-> FALSE, name |-> name]
LocalA == Local(A)
LocalB == [kind |-> "local", head |-> TRUE, name |-> B]
TagV == [kind |-> "tag", head |-> FALSE, name |-> <<"v">>]
OriginA == [kind |-> "remote", head |-> FALSE, name |-> ORIGIN_SLASH \o A]
UpstreamA == [kind |-> "remote", head |-> FALSE, name |-> <<"u", "p", "/", "a">>]
Labels == {LocalA, LocalB, TagV, OriginA, UpstreamA}

MaxLabels == 2
MaxEntries == 2

SeqsUpTo(S, n) == UNION {[1..k -> S] : k \in 0..n}

Entries == SeqsUpTo(Labels, MaxLabels)
Histories == SeqsUpTo(Entries, MaxEntries)

RenderLabel(l) ==
    (IF l.head THEN HEAD_ARROW ELSE << >>)
        \o (IF l.kind = "tag" THEN TAG_COLON ELSE << >>)
        \o l.name

RenderEntry(e) ==
    <<"*", " ", "c", "1", " ">>
        \o (IF e = << >> THEN << >>
            ELSE <<"(">> \o Join([i \in 1..Len(e) |-> RenderLabel(e[i])], COMMA_SPACE) \o <<")", " ">>)
        \o <<"m">>

GitLog(history) == [i \in 1..Len(history) |-> RenderEntry(history[i])]

\* The log of a branch whose first decorated ancestor carries the one label p
LogWithParent(p) == GitLog(<< <<Local(p)>> >>)

\* The histories the walk is run on: nothing decorated, one decorated
\* ancestor (any branch, the branch itself and the trunk included), a tagged
\* commit above a commit that carries origin/a and the checked-out b, and an
\* undecorated root commit whose message is "m) (x".
WalkLogs ==
    {<< >>}
        \cup {LogWithParent(p) : p \in Branch}
        \cup {GitLog(<< <<TagV>>, <<OriginA, LocalB>> >>)}
        \cup {<< <<"*", " ", "c", "0", " ", "m", ")", " ", "(", "x">> >>}

(***************************************************************************)
(* StackIter, stack_from, current_stack                                    *)
(***************************************************************************)
StackIter_from(branch) == [main |-> Unwrap(main_branch), current |-> Some(branch)]

\* A walk that does not stop at the trunk: the first filter left out
filter_next_keeps_main(next, main, current) ==
    IF IsSome(next) /\ Unwrap(next) # current THEN next ELSE None

\* next.filter(|next| next != &self.main).filter(|next| next != &current)
filter_next(next, main, current) ==
    IF IsSome(next) /\ Unwrap(next) # main /\ Unwrap(next) # current THEN next ELSE None

\* StackIter::next once self.current was taken as Some(current) and parent()
\* returned next: the expect, the two filters, Some(current)
StackIter_step(itr, current, next) ==
    IF next.kind = "panic"
    THEN [it |-> [itr EXCEPT !.current = None], item |-> None, panic |-> TRUE]
    ELSE [it |-> [itr EXCEPT !.current = filter_next(next.val, itr.main, current)],
          item |-> Some(current), panic |-> FALSE]

\* StackIter::next: the iterator afterwards and the item returned
StackIter_next(itr) ==
    IF ~IsSome(itr.current) THEN [it |-> itr, item |-> None, panic |-> FALSE]
    ELSE StackIter_step(itr, Unwrap(itr.current), parent(Unwrap(itr.current)))

\* The walk yields at most this many items in the model
MaxWalk == 6

NoIter == [main |-> << >>, current |-> None]

\* Iterator::collect on a StackIter, as one call: Ok(the Vec), Panic, or Hang
\* when the walk has not ended after MaxWalk items
RECURSIVE collect(_, _)
RECURSIVE collect_item(_, _)
collect_item(r, acc) ==
    IF r.panic THEN Panic
    ELSE IF ~IsSome(r.item) THEN Ok(acc)
    ELSE IF Len(acc) >= MaxWalk THEN Hang
    ELSE collect(r.it, Append(acc, Unwrap(r.item)))

collect(itr, acc) == collect_item(StackIter_next(itr), acc)

stack_from(branch) == collect(StackIter_from(branch), << >>)
current_stack == collect(StackIter_from(current_branch), << >>)

(***************************************************************************)
(* gh: the review hosting service                                          *)
(***************************************************************************)
PrNumber(n) == [success |-> TRUE, stdout |-> n, stderr |-> << >>]
PrEmpty == [success |-> TRUE, stdout |-> << >>, stderr |-> << >>]
PrNotFound == [success |-> FALSE, stdout |-> << >>, stderr |-> NO_PULL_REQUESTS_FOUND \o <<" ", "f", "o", "r">>]
PrAuthError == [success |-> FALSE, stdout |-> << >>, stderr |-> <<"H", "T", "T", "P", " ", "4", "0", "1">>]

\* `gh pr view <branch> --json number`
gh_pr_view(branch) == IF branch \in DOMAIN prs THEN prs[branch] ELSE PrNotFound

pr_for_branch(branch) ==
    LET output == gh_pr_view(branch)
    IN IF ~output.success
       THEN IF find(output.stderr, NO_PULL_REQUESTS_FOUND) # NoIndex
            THEN Ok(None)
            ELSE Err("gh pr view failed")
       ELSE Ok(IF output.stdout # << >> THEN Some(output.stdout) ELSE None)

\* `gh pr view <branch> --json body` succeeds when the branch has a pull request
pr_body(branch) ==
    IF ~gh_pr_view(branch).success THEN Err("gh pr view failed")
    ELSE Ok(bodies[branch])

\* How set_pr_body can go: the spawn fails, the write to the child's stdin
\* fails, or the child is left running with the body it read
EditOutcomes == {"spawn_failed", "write_failed", "spawned"}

\* set_pr_body: the child is spawned and the body written to its stdin; the
\* child is not waited for, so it sets the body (or fails to) on its own
\* time and its exit status is never read
set_pr_body(outcome) ==
    IF outcome = "spawn_failed" THEN Err("gh pr edit failed")
    ELSE IF outcome = "write_failed" THEN Err("failed to write to gh pr edit stdin")
    ELSE Ok(None)

(***************************************************************************)
(* Note composer                                                           *)
(***************************************************************************)
Formats == {"Double", "List", "Table"}

note_double(prev_pr, next_pr) ==
    LET n0 == NOTE_HEADER
        n1 == IF IsSome(prev_pr) THEN n0 \o PREVIOUS_PR_ITEM \o Unwrap(prev_pr) ELSE n0
        n2 == IF IsSome(next_pr) THEN n1 \o NEXT_PR_ITEM \o Unwrap(next_pr) ELSE n1
    IN Ok(IF n2 = NOTE_HEADER THEN n2 \o ONLY_PR ELSE n2)

\* the loop of note_list over stack.iter().rev(), from position k down
RECURSIVE note_list_items(_, _, _)
note_list_items(branch, stk, k) ==
    IF k = 0 THEN Ok(<< >>)
    ELSE LET b == stk[k]
             pr == pr_for_branch(b)
         IN IF pr.kind = "err" THEN pr
            ELSE LET rest == note_list_items(branch, stk, k - 1)
                     item == LIST_ITEM \o Unwrap(pr.val)
                                 \o (IF b = branch THEN THIS_SUFFIX ELSE << >>)
                 IN IF rest.kind = "err" THEN rest
                    ELSE IF IsSome(pr.val) THEN Ok(<<item>> \o rest.val)
                    ELSE rest

note_list(branch, stk) ==
    LET items == note_list_items(branch, stk, Len(stk))
    IN IF items.kind = "err" THEN items ELSE Ok(Join(items.val, NL))

note_table(prev_pr, next_pr) ==
    LET prev == IF IsSome(prev_pr) THEN <<"#">> \o Unwrap(prev_pr) ELSE NONE_TEXT
        next == IF IsSome(next_pr) THEN <<"#">> \o Unwrap(next_pr) ELSE NONE_TEXT
    IN Ok(TABLE_HEADER \o TABLE_RULE
            \o <<"|", " ">> \o prev \o <<" ", "|", " ">> \o next \o <<" ", "|">>)

\* usize::MAX, further than any index of a Vec (TLC's largest integer stands for it)
USIZE_MAX == 2147483647

\* An index that stays at 0 instead of wrapping
saturating_sub_1(i) == IF i = 0 THEN 0 ELSE i - 1

\* branch_index.wrapping_sub(1)
wrapping_sub_1(i) == IF i = 0 THEN USIZE_MAX ELSE i - 1

\* Vec::get with a 0-based index
get(stk, i) == IF i < Len(stk) THEN Some(stk[i + 1]) ELSE None

\* Iterator::position: the 0-based index of the first match
position(stk, branch) ==
    LET hits == {i \in 0..(Len(stk) - 1) : stk[i + 1] = branch}
    IN IF hits = {} THEN None ELSE Some(Min(hits))

\* stack.get(i).map(pr_for_branch).transpose(): Ok(None) without a neighbour
neighbour_pr(stk, i) ==
    IF IsSome(get(stk, i)) THEN pr_for_branch(Unwrap(get(stk, i))) ELSE Ok(None)

note_block_in(stk, branch, fmt) ==
    LET at == position(stk, branch)
    IN IF ~IsSome(at) THEN Err("branch is not in the stack")
       ELSE LET branch_index == Unwrap(at)
                prev_pr == neighbour_pr(stk, branch_index + 1)
                next_pr == neighbour_pr(stk, wrapping_sub_1(branch_index))
            IN IF prev_pr.kind = "err" THEN prev_pr
               ELSE IF next_pr.kind = "err" THEN next_pr
               ELSE IF fmt = "Double" THEN note_double(prev_pr.val, next_pr.val)
               ELSE IF fmt = "List" THEN note_list(branch, stk)
               ELSE note_table(prev_pr.val, next_pr.val)

\* The stack note_block works on
note_block_stack == current_stack

note_block_on(stk, branch, fmt) ==
    IF stk.kind # "ok" THEN stk ELSE note_block_in(stk.val, branch, fmt)

note_block(branch, fmt) == note_block_on(note_block_stack, branch, fmt)

(***************************************************************************)
(* Note merger                                                             *)
(***************************************************************************)
replace_note(body, note) ==
    LET open == find(body, OPEN)
        close == find(body, CLOSE)
    IN IF open # NoIndex /\ close # NoIndex /\ open < close
       THEN LET before == SubSeq(body, 1, open)
                after == From(body, close + Len(CLOSE))
            IN before \o OPEN \o NL \o note \o NL \o CLOSE \o NL \o after
       ELSE OPEN \o NL \o note \o NL \o CLOSE \o NL \o body

(***************************************************************************)
(* update_note                                                             *)
(***************************************************************************)
Event(ev, branch, text) == [ev |-> ev, branch |-> branch, text |-> text]

\* update_note, its first statement: pr_body(branch) with the context added
update_note_body(branch) ==
    IF pr_body(branch).kind = "err" THEN Err("failed to get PR body") ELSE pr_body(branch)

\* update_note once pr_body and note_block have returned Ok, `edit` being how
\* set_pr_body goes if it is called: the result, what is printed, and the
\* `gh pr edit` children left running
update_note_write(branch, dry, edit, old_body, note) ==
    LET new_body == replace_note(old_body, note)
        same == [result |-> Ok(None), printed |-> << >>, spawned |-> {}]
    IN IF dry THEN [same EXCEPT !.printed = <<Event("new_body", branch, new_body)>>]
       ELSE IF new_body = old_body THEN same
       ELSE [same EXCEPT
                !.result = set_pr_body(edit),
                !.spawned = IF edit = "spawned"
                            THEN {[branch |-> branch, body |-> new_body]} ELSE {}]

(***************************************************************************)
(* Initial values of the parts a command does not use                      *)
(***************************************************************************)
NoNote == [called |-> FALSE, branch |-> << >>, stack |-> Ok(<< >>), result |-> Ok(<< >>)]

NoWalk == start = << >> /\ it = NoIter /\ stack = << >>
NoLoop == edits = {} /\ lost = {} /\ fetched = Ok(<< >>) /\ idx = 0 /\ noted = NoNote /\ out = << >>
NoMerge ==
    /\ mbody = << >> /\ note1 = << >> /\ note2 = << >>
    /\ once = << >> /\ twice = << >> /\ direct = << >>
NoGh == prs = [b \in Branch |-> PrNotFound] /\ bodies = [b \in Branch |-> << >>]

\* branch.unwrap_or_else(|| current_branch().unwrap())
branch_or_current == IF IsSome(arg) THEN Unwrap(arg) ELSE current_branch

(***************************************************************************)
(* SpecParent: the parent command on the decorated history of one branch   *)
(***************************************************************************)
InitParent ==
    /\ refs \in Histories
    /\ gitlog = [b \in {X} |-> GitLog(refs)]
    /\ head = X
    /\ cmd = "parent" /\ arg \in {None, Some(X)} /\ format = "Double" /\ dry_run = FALSE
    /\ parentOut = Ok(None)
    /\ NoGh /\ NoWalk /\ NoLoop /\ NoMerge
    /\ pc = "parent"

\* main, Command::Parent
ParentCmd ==
    /\ pc = "parent"
    /\ parentOut' = parent(branch_or_current)
    /\ pc' = (IF parentOut'.kind = "panic" THEN "panic" ELSE "done")
    /\ UNCHANGED <<envVars, cliVars, walkVars, loopVars, mergeVars>>

NextParent == ParentCmd

SpecParent == InitParent /\ [][NextParent]_vars

(***************************************************************************)
(* SpecWalk: the stack command, stack_from(branch) / current_stack()       *)
(***************************************************************************)
Args == {None} \cup {Some(b) : b \in Branch}

InitWalk ==
    /\ refs = << >>
    /\ gitlog \in [Branch -> WalkLogs]
    /\ head \in Branch
    /\ cmd = "stack" /\ arg \in Args /\ format = "Double" /\ dry_run = FALSE
    /\ parentOut = Ok(None)
    /\ NoGh /\ NoWalk /\ NoLoop /\ NoMerge
    /\ pc = "stack"

\* main, Command::Stack and Command::UpdateNotes: stack_from(branch) builds
\* the iterator
StackFromCmd ==
    /\ pc \in {"stack", "update-notes"}
    /\ pc = cmd
    /\ start' = branch_or_current
    /\ it' = StackIter_from(start')
    /\ stack' = << >>
    /\ pc' = "collect"
    /\ UNCHANGED <<envVars, cliVars, parentOut, loopVars, mergeVars>>

\* collect() takes one more item from the iterator
IterNext ==
    /\ pc = "collect"
    /\ IsSome(it.current)
    /\ Len(stack) < MaxWalk
    /\ LET r == StackIter_next(it)
       IN /\ it' = r.it
          /\ stack' = (IF r.panic THEN stack ELSE Append(stack, Unwrap(r.item)))
          /\ pc' = (IF r.panic THEN "panic" ELSE "collect")
    /\ UNCHANGED <<envVars, cliVars, parentOut, start, loopVars, mergeVars>>

\* the iterator returns None and collect() returns the Vec; the stack
\* command prints it, update-notes loops over it
IterDone ==
    /\ pc = "collect"
    /\ ~IsSome(it.current)
    /\ it' = StackIter_next(it).it
    /\ out' = (IF cmd = "stack"
               THEN [i \in 1..Len(stack) |-> Event("branch", stack[i], << >>)]
               ELSE out)
    /\ pc' = (IF cmd = "stack" THEN "done" ELSE "loop")
    /\ UNCHANGED <<envVars, cliVars, parentOut, start, stack, bodies, edits, lost, fetched, idx, noted, mergeVars>>

NextWalk == StackFromCmd \/ IterNext \/ IterDone

SpecWalk == InitWalk /\ [][NextWalk]_vars

(***************************************************************************)
(* Spec: the note and update-notes commands                                *)
(***************************************************************************)
PrOf(b) ==
    IF b = A THEN PrNumber(<<"4", "0">>)
    ELSE IF b = B THEN PrNumber(<<"4", "1">>)
    ELSE PrNumber(<<"4", "2">>)

\* What gh may answer for each branch: a has a pull request or none, for b gh
\* may also fail, c has one or gh prints an empty number; the trunk has none
PrAnswers(b) ==
    IF b = A THEN {PrNotFound, PrOf(A)}
    ELSE IF b = B THEN {PrNotFound, PrAuthError, PrOf(B)}
    ELSE IF b = C THEN {PrEmpty, PrOf(C)}
    ELSE {PrNotFound}

\* The repositories the commands are run on: c is based on b, a or the trunk;
\* b on a, c or the trunk; a on the trunk, b, itself, or on nothing decorated
\* (chains of one to three branches, forks, and malformed histories)
ParentLogs(b) ==
    IF b = A THEN {<< >>} \cup {LogWithParent(p) : p \in {MAIN, B, A}}
    ELSE IF b = B THEN {LogWithParent(p) : p \in {A, C, MAIN}}
    ELSE IF b = C THEN {LogWithParent(p) : p \in {B, A, MAIN}}
    ELSE {<< >>}

\* A body without a note, and one that holds the note of an earlier run
PlainBody == <<"d", "\n">>
NotedBody == <<"t", "\n">> \o OPEN \o NL \o NOTE_HEADER \o ONLY_PR \o NL \o CLOSE \o NL \o <<"d", "\n">>

Init ==
    /\ refs = << >>
    /\ gitlog \in {g \in [Branch -> UNION {ParentLogs(b) : b \in Branch}] :
                       \A b \in Branch : g[b] \in ParentLogs(b)}
    /\ head \in Branch
    /\ prs \in {p \in [Branch -> UNION {PrAnswers(b) : b \in Branch}] :
                    \A b \in Branch : p[b] \in PrAnswers(b)}
    /\ bodies = [b \in Branch |-> IF b = B THEN NotedBody ELSE PlainBody]
    /\ cmd \in {"note", "update-notes"}
    /\ arg \in Args
    /\ format \in (IF cmd = "note" THEN Formats ELSE {"Double"})
    /\ dry_run \in (IF cmd = "note" THEN {FALSE} ELSE BOOLEAN)
    /\ parentOut = Ok(None)
    /\ NoWalk /\ NoLoop /\ NoMerge
    /\ pc = cmd

Noted(branch, r) ==
    [called |-> TRUE, branch |-> branch, stack |-> note_block_stack, result |-> r]

AfterCall(r, next) ==
    IF r.kind = "ok" THEN next
    ELSE IF r.kind = "err" THEN "failed"
    ELSE r.kind

\* main, Command::Note
NoteCmd ==
    /\ pc = "note"
    /\ \E note \in {note_block(branch_or_current, format)} :
          /\ noted' = Noted(branch_or_current, note)
          /\ out' = (IF note.kind = "ok"
                     THEN <<Event("note", branch_or_current, note.val)>> ELSE out)
          /\ pc' = AfterCall(note, "done")
    /\ UNCHANGED <<envVars, cliVars, parentOut, walkVars, bodies, edits, lost, fetched, idx, mergeVars>>

\* println!("Error in branch {branch}: {e}")
ErrorIn(branch) == <<Event("error", branch, << >>)>>

\* main, Command::UpdateNotes: a turn of the loop over the stack begins,
\* println!("Updating notes for {branch}...")
UpdateNotesAnnounce ==
    /\ pc = "loop"
    /\ idx < Len(stack)
    /\ out' = out \o <<Event("updating", stack[idx + 1], << >>)>>
    /\ pc' = "pr_body"
    /\ UNCHANGED <<envVars, cliVars, parentOut, walkVars, bodies, edits, lost, fetched, idx, noted, mergeVars>>

\* update_note waits for `gh pr view <branch> --json body`; on an error the
\* turn ends with the error printed
UpdateNotePrBody ==
    /\ pc = "pr_body"
    /\ \E b \in {update_note_body(stack[idx + 1])} :
          /\ fetched' = b
          /\ out' = (IF b.kind = "err" THEN out \o ErrorIn(stack[idx + 1]) ELSE out)
          /\ idx' = (IF b.kind = "err" THEN idx + 1 ELSE idx)
          /\ pc' = (IF b.kind = "err" THEN "loop" ELSE "note_block")
    /\ UNCHANGED <<envVars, cliVars, parentOut, walkVars, bodies, edits, lost, noted, mergeVars>>

\* update_note waits for note_block, which waits for git and for gh pr view
\* (neither is changed by a `gh pr edit` child); on an error the turn ends
\* with the error printed
UpdateNoteNoteBlock ==
    /\ pc = "note_block"
    /\ \E note \in {note_block(stack[idx + 1], format)} :
          /\ noted' = Noted(stack[idx + 1], note)
          /\ out' = (IF note.kind = "err" THEN out \o ErrorIn(stack[idx + 1]) ELSE out)
          /\ idx' = (IF note.kind = "err" THEN idx + 1 ELSE idx)
          /\ pc' = (IF note.kind = "ok" THEN "write"
                    ELSE IF note.kind = "err" THEN "loop"
                    ELSE note.kind)
    /\ UNCHANGED <<envVars, cliVars, parentOut, walkVars, bodies, edits, lost, fetched, mergeVars>>

\* update_note merges the note and prints the new body (--dry-run) or calls
\* set_pr_body if the body changed; the turn ends
UpdateNoteWrite ==
    /\ pc = "write"
    /\ \E edit \in EditOutcomes :
        \E u \in {update_note_write(stack[idx + 1], dry_run, edit, fetched.val, noted.result.val)} :
             /\ edits' = edits \cup u.spawned
             /\ out' = out \o u.printed
                           \o (IF u.result.kind = "err" THEN ErrorIn(stack[idx + 1]) ELSE << >>)
             /\ idx' = idx + 1
             /\ pc' = "loop"
    /\ UNCHANGED <<envVars, cliVars, parentOut, walkVars, bodies, lost, fetched, noted, mergeVars>>

\* the loop has taken every branch of the stack; main returns Ok
UpdateNotesEnd ==
    /\ pc = "loop"
    /\ idx = Len(stack)
    /\ pc' = "done"
    /\ UNCHANGED <<envVars, cliVars, parentOut, walkVars, loopVars, mergeVars>>

\* a `gh pr edit` child ends having set the body it read from its stdin;
\* nothing waits for it, so this happens during later turns or after main
\* has returned
GhPrEditSucceeds ==
    /\ \E e \in edits :
          /\ bodies' = [bodies EXCEPT ![e.branch] = e.body]
          /\ edits' = edits \ {e}
    /\ UNCHANGED <<envVars, cliVars, parentOut, walkVars, lost, fetched, idx, noted, out, mergeVars, pc>>

\* a `gh pr edit` child exits with a failure and the body stays as it was;
\* its exit status is not read
GhPrEditFails ==
    /\ \E e \in edits :
          /\ lost' = lost \cup {e.branch}
          /\ edits' = edits \ {e}
    /\ UNCHANGED <<envVars, cliVars, parentOut, walkVars, bodies, fetched, idx, noted, out, mergeVars, pc>>

Next ==
    \/ NoteCmd \/ StackFromCmd \/ IterNext \/ IterDone
    \/ UpdateNotesAnnounce \/ UpdateNotePrBody \/ UpdateNoteNoteBlock \/ UpdateNoteWrite
    \/ UpdateNotesEnd
    \/ GhPrEditSucceeds \/ GhPrEditFails

Spec == Init /\ [][Next]_vars

(***************************************************************************)
(* SpecMerge: replace_note on a body, once, again, and with the second     *)
(* note alone                                                              *)
(***************************************************************************)
MaxPieces == 3

Pieces == {OPEN, CLOSE, <<"d">>, NL}
MergeBodies == {Concat(ps) : ps \in SeqsUpTo(Pieces, MaxPieces)}

\* The notes the composer writes for a branch with no neighbour, with a
\* previous one, and with both
MergeNotes ==
    {note_double(None, None).val,
     note_double(Some(<<"4", "0">>), None).val,
     note_table(Some(<<"4", "0">>), Some(<<"4", "2">>)).val}

InitMerge ==
    /\ refs = << >>
    /\ gitlog = [b \in Branch |-> << >>]
    /\ head = MAIN
    /\ cmd = "update-notes" /\ arg = None /\ format = "Double" /\ dry_run = FALSE
    /\ parentOut = Ok(None)
    /\ NoGh /\ NoWalk /\ NoLoop
    /\ mbody \in MergeBodies
    /\ note1 \in MergeNotes
    /\ note2 \in MergeNotes
    /\ once = << >> /\ twice = << >> /\ direct = << >>
    /\ pc = "merge"

MergeOnce ==
    /\ pc = "merge"
    /\ once' = replace_note(mbody, note1)
    /\ pc' = "merged once"
    /\ UNCHANGED <<envVars, cliVars, parentOut, walkVars, loopVars, mbody, note1, note2, twice, direct>>

MergeAgain ==
    /\ pc = "merged once"
    /\ twice' = replace_note(once, note2)
    /\ pc' = "merged twice"
    /\ UNCHANGED <<envVars, cliVars, parentOut, walkVars, loopVars, mbody, note1, note2, once, direct>>

MergeDirect ==
    /\ pc = "merged twice"
    /\ direct' = replace_note(mbody, note2)
    /\ pc' = "done"
    /\ UNCHANGED <<envVars, cliVars, parentOut, walkVars, loopVars, mbody, note1, note2, once, twice>>

NextMerge == MergeOnce \/ MergeAgain \/ MergeDirect

SpecMerge == InitMerge /\ [][NextMerge]_vars

(***************************************************************************)
(* Claims on the parent resolver                                           *)
(***************************************************************************)
\* The local-branch labels of an entry, in declaration order
RECURSIVE FirstLocal(_)
FirstLocal(e) ==
    IF e = << >> THEN None
    ELSE IF Head(e).kind = "local" THEN Some(Head(e).name)
    ELSE FirstLocal(Tail(e))

RECURSIVE FirstLocalOfHistory(_)
FirstLocalOfHistory(h) ==
    IF h = << >> THEN None
    ELSE IF IsSome(FirstLocal(Head(h))) THEN FirstLocal(Head(h))
    ELSE FirstLocalOfHistory(Tail(h))

\* C9: parent(B) is the first local-branch label of the first entry that has
\* one, tags and remote-tracking labels of any remote discarded; None if no
\* entry has a local-branch label.
C9_ParentIsFirstLocalLabel ==
    pc = "done" => parentOut = Ok(FirstLocalOfHistory(refs))

(***************************************************************************)
(* Claims on the stack walker                                              *)
(***************************************************************************)
\* C1: no branch name appears twice in the sequence the walk accumulates,
\* at any point of the walk and in the final result, for every parent
\* relation (cycles included) and every start branch.
C1_NoDuplicateInStack ==
    \A i, j \in 1..Len(stack) : i # j => stack[i] # stack[j]

\* C2: the trunk never appears in the stack, for every start branch; the
\* stack of the trunk itself is empty.
C2_TrunkNeverInStack ==
    /\ \A i \in 1..Len(stack) : stack[i] # MAIN
    /\ (pc = "done" /\ start = MAIN) => stack = << >>

\* C3: the walk terminates with a finite stack for every parent relation in
\* which every parent() call succeeds, cycles among non-trunk branches
\* included: it is never about to yield a name it has yielded, so it yields
\* no more names than there are branches.
C3_WalkStopsBeforeRepeat ==
    pc = "collect" =>
        /\ IsSome(it.current) => \A i \in 1..Len(stack) : stack[i] # Unwrap(it.current)
        /\ Len(stack) <= Cardinality(Branch)

\* A branch whose parent ends the walk: the trunk, the branch itself, none
EndsWalk(b) ==
    parent(b) = Ok(None) \/ parent(b) = Ok(Some(MAIN)) \/ parent(b) = Ok(Some(b))

\* C4: for a start branch other than the trunk, the stack is the parent
\* chain of the start: it begins with the start, each element is followed by
\* its parent, no element before the last has a parent that ends the walk,
\* and the last element of the returned stack has such a parent.
C4_StackIsParentChain ==
    (pc \in {"collect", "done"} /\ start # MAIN) =>
        /\ Len(stack) >= 1 => stack[1] = start
        /\ \A i \in 1..(Len(stack) - 1) :
              /\ parent(stack[i]) = Ok(Some(stack[i + 1]))
              /\ ~EndsWalk(stack[i])
        /\ pc = "done" => (Len(stack) >= 1 /\ EndsWalk(stack[Len(stack)]))

\* A walk of three branches that returned because the third is based on the trunk
C4_Witness ==
    /\ pc = "done"
    /\ start # MAIN
    /\ Len(stack) = 3
    /\ parent(stack[3]) = Ok(Some(MAIN))

(***************************************************************************)
(* Claims on the note merger                                               *)
(***************************************************************************)
\* C5: merging note1 and then note2 gives the text of merging note2 alone;
\* in particular merging the same note twice gives the text of merging it once.
C5_MergeIdempotent ==
    pc = "done" =>
        /\ twice = direct
        /\ note1 = note2 => twice = once

MarkersInOrder(body) ==
    /\ find(body, OPEN) # NoIndex
    /\ find(body, CLOSE) # NoIndex
    /\ find(body, OPEN) < find(body, CLOSE)

TextBeforeOpen(body) == SubSeq(body, 1, find(body, OPEN))
TextAfterClose(body) == From(body, find(body, CLOSE) + Len(CLOSE))

\* C6: when the body holds both markers, open before close, the merge leaves
\* the text before the open marker and the text after the close marker as
\* they were in the body, nothing added and nothing removed.
C6_OutsideMarkersUntouched ==
    (pc # "merge" /\ MarkersInOrder(mbody)) =>
        /\ TextBeforeOpen(once) = TextBeforeOpen(mbody)
        /\ TextAfterClose(once) = TextAfterClose(mbody)

(***************************************************************************)
(* Claims on the note and update-notes commands                            *)
(***************************************************************************)
Reported(b) == \E i \in 1..Len(out) : out[i].ev = "error" /\ out[i].branch = b

\* The branches the loop announced ("Updating notes for ..."), in order
RECURSIVE Attempted(_)
Attempted(events) ==
    IF events = << >> THEN << >>
    ELSE (IF Head(events).ev = "updating" THEN <<Head(events).branch>> ELSE << >>)
            \o Attempted(Tail(events))

\* C7: update-notes attempts every branch of the stack in stack order; a
\* failure while updating one branch's body (reading it, looking up reviews,
\* writing it back) is reported for that branch and the rest is attempted.
C7_FailuresReportedAllAttempted ==
    cmd = "update-notes" =>
        /\ \A b \in lost : Reported(b)
        /\ pc = "loop" => Attempted(out) = SubSeq(stack, 1, idx)
        /\ pc \in {"pr_body", "note_block", "write"} => Attempted(out) = SubSeq(stack, 1, idx + 1)
        /\ pc = "done" => Attempted(out) = stack

\* gh holds a review for the branch
Resolved(b) == gh_pr_view(b).success /\ gh_pr_view(b).stdout # << >>

Has(text, part) == find(text, part) # NoIndex

\* 1-based index of the noted branch in the stack note_block walked
FocalIndex == CHOOSE i \in 1..Len(noted.stack.val) : noted.stack.val[i] = noted.branch

DoubleNoted == noted.called /\ format = "Double" /\ noted.result.kind = "ok"

\* C8: the Double note of the branch at index i of the head-first stack S has
\* a "Previous PR" line iff S[i+1] exists and has a review, a "Next PR" line
\* iff i is not the head and S[i-1] has a review, the "only PR" sentence iff
\* neither; it is never the bare callout, and the head never has a "Next PR" line.
C8_DoubleNoteLines ==
    DoubleNoted =>
        LET S == noted.stack.val
            i == FocalIndex
            note == noted.result.val
            previous == i + 1 <= Len(S) /\ Resolved(S[i + 1])
            next == i > 1 /\ Resolved(S[i - 1])
        IN /\ Has(note, PREVIOUS_PR_ITEM) <=> previous
           /\ Has(note, NEXT_PR_ITEM) <=> next
           /\ Has(note, ONLY_PR) <=> (~previous /\ ~next)
           /\ note # NOTE_HEADER
           /\ i = 1 => ~Has(note, NEXT_PR_ITEM)

\* The head of a stack of three, with a review of its own and one below it:
\* its note has the "Previous PR" line and no "Next PR" line
C8_Witness ==
    /\ DoubleNoted
    /\ Len(noted.stack.val) = 3
    /\ FocalIndex = 1
    /\ Resolved(noted.stack.val[1])
    /\ Resolved(noted.stack.val[2])
    /\ Has(noted.result.val, PREVIOUS_PR_ITEM)

\* C10: with an explicit branch argument B, the note of each processed
\* branch is the one computed on stack_from(B), whichever branch is checked
\* out; no branch of stack_from(B) fails as not in the stack.
C10_NoteUsesStackOfArgument ==
    (noted.called /\ IsSome(arg) /\ stack_from(Unwrap(arg)).kind = "ok") =>
        noted.result = note_block_on(stack_from(Unwrap(arg)), noted.branch, format)

====
